---------------------------- MODULE Spec2Model ----------------------------
(***************************************************************************)
(* The COVID-19 Global Data Tracker notebook (src/COVID-19.ipynb) as a     *)
(* state machine: one linear pipeline, load -> filter -> forward-fill ->   *)
(* transform -> plot -> report, one action per notebook step.              *)
(*                                                                         *)
(* A table (DataFrame) is a sequence of rows; a row is a record from       *)
(* column names to cells.  A numeric cell is a pair <<n, d>> standing for  *)
(* the float n/d, so that the IEEE values the division of the notebook can *)
(* produce are all present: <<0, 0>> is NaN (pandas' missing value),       *)
(* <<1, 0>> is +inf, <<n, 1>> is the count n.  Floating-point rounding is  *)
(* not modelled: quotients are exact and kept in lowest terms.             *)
(*                                                                         *)
(* Init is the state after df = pd.read_csv(url) and the parsing of the    *)
(* dates: a date is the number of its day.  The input tables have the      *)
(* layout of the dataset the notebook loads: rows listed by location and,  *)
(* within a location, by date, one row per (location, date).  The code     *)
(* fills and rolls in table order and never sorts before doing so; on      *)
(* these inputs table order and date order of a location agree.            *)
(***************************************************************************)
EXTENDS Integers, Sequences, FiniteSets, TLC

\* ------------------------------------------------------------------ bounds

\* Metric cells of the input range over NaN and 0..MaxVal.
MaxVal == 1
\* Number of daily observations of the location whose series is varied.
MaxDays == 3

\* ----------------------------------------------------- program constants

\* x.rolling(7, min_periods=1): the window and the least number of
\* non-missing observations a window needs.
Window == 7
MinPeriods == 1
\* The population of a complete input observation.
BasePopulation == 10

\* .head(5) of the three rankings.
TopN == 5
\* "* 100" of the three percentages.
Percent == 100

countries_of_interest ==
  << "United States", "India", "Brazil", "United Kingdom", "Russia",
     "France", "Germany", "South Africa", "Kenya", "China" >>

continents ==
  << "World", "Asia", "Europe", "North America", "South America", "Africa",
     "Oceania", "European Union", "High income", "Upper middle income",
     "Lower middle income", "Low income" >>

key_metrics ==
  << "total_cases", "new_cases", "total_deaths", "new_deaths",
     "total_vaccinations", "people_vaccinated", "people_fully_vaccinated" >>

\* ------------------------------------------------------------ float cells

NaN == << 0, 0 >>
Inf == << 1, 0 >>
Num(n) == << n, 1 >>

\* pd.isna / Series.isnull: NaN is missing, inf is not.
isna(v) == v = NaN

RECURSIVE Gcd(_, _)
Gcd(a, b) == IF b = 0 THEN a ELSE Gcd(b, a % b)

\* A non-negative quotient in lowest terms.
Norm(n, d) == LET g == Gcd(n, d) IN << n \div g, d \div g >>

\* Float division of non-negative values: NaN propagates, x/0 is inf for
\* x > 0 and NaN for x = 0, inf/inf is NaN, x/inf is 0.
Div(a, b) ==
  IF isna(a) \/ isna(b) THEN NaN
  ELSE IF a = Inf THEN (IF b = Inf THEN NaN ELSE Inf)
  ELSE IF b = Inf THEN Num(0)
  ELSE IF b[1] = 0 THEN (IF a[1] = 0 THEN NaN ELSE Inf)
  ELSE Norm(a[1] * b[2], a[2] * b[1])

\* Float multiplication by a positive integer constant.
Scale(a, k) ==
  IF isna(a) THEN NaN ELSE IF a = Inf THEN Inf ELSE Norm(a[1] * k, a[2])

\* a > b on floats: false whenever either side is NaN.
Gt(a, b) ==
  IF isna(a) \/ isna(b) THEN FALSE
  ELSE IF b = Inf THEN FALSE
  ELSE IF a = Inf THEN TRUE
  ELSE a[1] * b[2] > b[1] * a[2]

\* ----------------------------------------------------------------- tables

\* The cell of column c in row r; a column the table does not have reads
\* as missing.
Cell(r, c) == IF c \in DOMAIN r THEN r[c] ELSE NaN

Range(s) == { s[i] : i \in DOMAIN s }

\* Series.isin(values)
isin(x, values) == \E i \in DOMAIN values : values[i] = x

\* df[mask] for mask = df['location'].isin(values): the rows whose
\* location is listed, in table order, as a table of its own (a copy).
WhereIn(t, values) == SelectSeq(t, LAMBDA r : isin(r.location, values))

\* A slip of WhereNotIn: the mask's negation left out.
WhereNotInUnnegated(t, values) ==
  SelectSeq(t, LAMBDA r : isin(r.location, values))

\* df[~mask]: the rows whose location is not listed.
WhereNotIn(t, values) == SelectSeq(t, LAMBDA r : ~isin(r.location, values))

Locations(t) == { t[i].location : i \in DOMAIN t }

\* The row indices of one group of groupby('location'), in table order.
GroupIdx(t, loc) ==
  SelectSeq([i \in 1..Len(t) |-> i], LAMBDA i : t[i].location = loc)

\* The position of row i within its group.
PosInGroup(t, i) ==
  Cardinality({ j \in 1..i : t[j].location = t[i].location })

\* Series.fillna(method='ffill'): walk the series carrying the last
\* non-missing value seen.
RECURSIVE FfillFrom(_, _)
FfillFrom(s, last) ==
  IF s = << >> THEN << >>
  ELSE LET v == IF isna(Head(s)) THEN last ELSE Head(s)
       IN  << v >> \o FfillFrom(Tail(s), v)

ffill(s) == FfillFrom(s, NaN)

\* Sum and difference of non-negative finite floats.
Add(a, b) == Norm(a[1] * b[2] + b[1] * a[2], a[2] * b[2])
Sub(a, b) == Norm(a[1] * b[2] - b[1] * a[2], a[2] * b[2])

\* Series.rolling(w, min_periods=minp).mean(): a running sum and a count
\* of the non-missing observations; observation i enters the window, the
\* observation w places back leaves it.
RECURSIVE RollFrom(_, _, _, _, _, _)
RollFrom(s, i, sum, nobs, w, minp) ==
  IF i > Len(s) THEN << >>
  ELSE LET sumIn   == IF isna(s[i]) THEN sum ELSE Add(sum, s[i])
           nobsIn  == IF isna(s[i]) THEN nobs ELSE nobs + 1
           leaves  == i > w /\ ~isna(s[i - w])
           sumOut  == IF leaves THEN Sub(sumIn, s[i - w]) ELSE sumIn
           nobsOut == IF leaves THEN nobsIn - 1 ELSE nobsIn
           mean    == IF nobsOut >= minp /\ nobsOut > 0
                      THEN Div(sumOut, Num(nobsOut)) ELSE NaN
       IN  << mean >> \o RollFrom(s, i + 1, sumOut, nobsOut, w, minp)

\* A slip of rolling_mean: the window one observation too long.
rolling_mean_wide(s) == RollFrom(s, 1, Num(0), 0, Window + 1, MinPeriods)

rolling_mean(s) == RollFrom(s, 1, Num(0), 0, Window, MinPeriods)

\* The series groupby('location')[c] hands to transform for the group of
\* row i: the cells of column c on the group's rows, in table order.
GroupSeries(t, i, c) ==
  LET g == GroupIdx(t, t[i].location)
  IN  [ k \in DOMAIN g |-> Cell(t[g[k]], c) ]

\* A slip of FfillColumn: the fill run down the whole column, without the
\* groupby.
FfillColumnUngrouped(t, m) ==
  [ i \in DOMAIN t |-> (m :> ffill([ k \in DOMAIN t |-> t[k][m] ])[i]) @@ t[i] ]

\* Another slip of FfillColumn: the observations with a gap dropped instead
\* of filled.
FfillColumnDropna(t, m) == SelectSeq(t, LAMBDA r : ~isna(r[m]))

\* filtered_df[m] = filtered_df.groupby('location')[m].transform(
\*     lambda x: x.fillna(method='ffill'))
\* The result of each group goes back on the rows it came from: no row is
\* added, dropped or moved.
FfillColumn(t, m) ==
  [ i \in DOMAIN t |->
      (m :> ffill(GroupSeries(t, i, m))[PosInGroup(t, i)]) @@ t[i] ]

\* filtered_df['new_cases_smoothed'] =
\*     filtered_df.groupby('location')['new_cases'].transform(
\*         lambda x: x.rolling(7, min_periods=1).mean())
SmoothColumn(t) ==
  [ i \in DOMAIN t |->
      ("new_cases_smoothed" :>
         rolling_mean(GroupSeries(t, i, "new_cases"))[PosInGroup(t, i)])
        @@ t[i] ]

\* The loop over key_metrics.
RECURSIVE FfillAll(_, _)
FfillAll(t, ms) ==
  IF ms = << >> THEN t ELSE FfillAll(FfillColumn(t, Head(ms)), Tail(ms))

\* t[dst] = t[a] / t[b] * 100, row by row.
RatioColumn(t, a, b, dst) ==
  [ i \in DOMAIN t |->
      (dst :> Scale(Div(Cell(t[i], a), Cell(t[i], b)), Percent)) @@ t[i] ]

\* A slip of PctForCountry: the population of the country's first row
\* (iloc[0]) in place of its last.
PctForCountryFirstRow(t, country) ==
  LET g == GroupIdx(t, country)
      first_pop == t[g[1]].population
  IN  IF g = << >> THEN t
      ELSE IF isna(first_pop) \/ ~Gt(first_pop, Num(0)) THEN t
      ELSE [ i \in DOMAIN t |->
               IF t[i].location = country
               THEN ("pct_vaccinated" :>
                       Scale(Div(t[i].people_fully_vaccinated, first_pop),
                             Percent)) @@ t[i]
               ELSE ("pct_vaccinated" :> Cell(t[i], "pct_vaccinated")) @@ t[i] ]

\* The loop body of the vaccination percentage for one country: the
\* population of the country's last row (iloc[-1]) divides the country's
\* people_fully_vaccinated; a missing or non-positive population skips the
\* country.  The first assignment through .loc creates the column, missing
\* on every other row.
PctForCountry(t, country) ==
  LET g == GroupIdx(t, country)
      latest_pop == t[g[Len(g)]].population
  IN  IF g = << >> THEN t
      ELSE IF isna(latest_pop) \/ ~Gt(latest_pop, Num(0)) THEN t
      ELSE [ i \in DOMAIN t |->
               IF t[i].location = country
               THEN ("pct_vaccinated" :>
                       Scale(Div(t[i].people_fully_vaccinated, latest_pop),
                             Percent)) @@ t[i]
               ELSE ("pct_vaccinated" :> Cell(t[i], "pct_vaccinated")) @@ t[i] ]

\* for country in countries_of_interest: ...
RECURSIVE PctAll(_, _)
PctAll(t, cs) ==
  IF cs = << >> THEN t ELSE PctAll(PctForCountry(t, Head(cs)), Tail(cs))

HasColumn(t, c) == t # << >> /\ c \in DOMAIN t[1]

\* sort_values('date'): rows by ascending date.  Rows of equal date belong
\* to different locations, and their mutual order (which the sort leaves
\* open) does not reach the per-location result taken from it.
RECURSIVE InsertByDate(_, _)
InsertByDate(sorted, r) ==
  IF sorted = << >> THEN << r >>
  ELSE IF Head(sorted).date <= r.date
       THEN << Head(sorted) >> \o InsertByDate(Tail(sorted), r)
       ELSE << r >> \o sorted

RECURSIVE sort_values_date(_)
sort_values_date(t) ==
  IF t = << >> THEN << >>
  ELSE InsertByDate(sort_values_date(SubSeq(t, 1, Len(t) - 1)), t[Len(t)])

\* The order in which groupby (sort=True) lists the group keys: the
\* location names of the model in lexicographic order.
LocationOrder ==
  << "Brazil", "China", "France", "India", "Kenya", "Peru", "Russia",
     "United Kingdom", "United States", "World" >>

\* Whether a cell counts as missing for GroupBy.last (location and date are
\* never missing).
Missing(c, v) == c \notin { "location", "date" } /\ isna(v)

\* GroupBy.last for one group and one column: walk the group's rows, each
\* non-missing cell replacing the result so far.
RECURSIVE LastFrom(_, _, _, _, _)
LastFrom(t, g, c, k, acc) ==
  IF k > Len(g) THEN acc
  ELSE LastFrom(t, g, c, k + 1,
                IF Missing(c, t[g[k]][c]) THEN acc ELSE t[g[k]][c])

\* t.groupby('location').last().reset_index(): one row per location, in
\* key order.
GroupLast(t) ==
  LET locs == SelectSeq(LocationOrder, LAMBDA l : l \in Locations(t))
  IN  [ k \in DOMAIN locs |->
          [ c \in DOMAIN t[1] |->
              IF c = "location" THEN locs[k]
              ELSE LastFrom(t, GroupIdx(t, locs[k]), c, 1, NaN) ] ]

\* t.sort_values('date').groupby('location').last().reset_index()
Latest(t) == GroupLast(sort_values_date(t))

\* Whether row r may come before row q in sort_values(c, ascending=False):
\* missing cells go last (na_position='last'), otherwise no smaller cell
\* comes first.
MayPrecede(r, q, c) ==
  IF isna(r[c]) THEN isna(q[c]) ELSE (isna(q[c]) \/ ~Gt(q[c], r[c]))

\* sort_values(c, ascending=False)[['location', c]].head(n): every result
\* the sort can give.  The default sort kind is not stable, so rows of
\* equal cells may come in any order.
RECURSIVE HeadDescending(_, _, _)
HeadDescending(S, c, n) ==
  IF S = {} \/ n = 0 THEN { << >> }
  ELSE UNION { { << [location |-> r.location, value |-> r[c]] >> \o rest :
                   rest \in HeadDescending(S \ {r}, c, n - 1) } :
               r \in { x \in S : \A q \in S : MayPrecede(x, q, c) } }

\* A slip of Top: the first rows taken without sorting.
TopUnsorted(t, c) ==
  { [ k \in 1..(IF Len(t) < TopN THEN Len(t) ELSE TopN) |->
        [location |-> t[k].location, value |-> t[k][c]] ] }

Top(t, c) == HeadDescending(Range(t), c, TopN)

\* ------------------------------------------------------------------ state

VARIABLES
  pc,                  \* the notebook step to run next
  df,                  \* the loaded table
  filtered_df,         \* the rows of the countries of interest
  continent_df,        \* the rows of the aggregate locations
  country_df,          \* the rows of all other locations
  latest_data,         \* the latest snapshot of filtered_df
  latest_vax_data,     \* the same, taken for the vaccination bar chart
  latest_global_data,  \* the latest snapshot of df, for the maps
  top_cases,           \* the three rankings
  top_deaths,
  top_vax,
  output,              \* what the run has shown so far, in order
  exceptions           \* the steps in which an exception was raised

vars ==
  << pc, df, filtered_df, continent_df, country_df, latest_data,
     latest_vax_data, latest_global_data, top_cases, top_deaths, top_vax,
     output, exceptions >>

\* A chart drawn from a table, and a printed line.
Chart(name, t) == [kind |-> "chart", name |-> name, locations |-> Locations(t)]
Printed(text) == [kind |-> "print", name |-> text, locations |-> {}]

\* ------------------------------------------------------------ input tables

\* The cells a metric of the input can hold.
Val == { NaN } \cup { Num(n) : n \in 0..MaxVal }

\* The place of a location in LocationOrder.
Rank(loc) == CHOOSE k \in DOMAIN LocationOrder : LocationOrder[k] = loc

\* A complete observation.  The counts differ from one location to the
\* next, so that two locations tie on a metric only where an input makes
\* them.
BaseRow(loc, d) ==
  [ location |-> loc, date |-> d,
    total_cases |-> Num(Rank(loc)), new_cases |-> Num(Rank(loc)),
    total_deaths |-> Num(Rank(loc)), new_deaths |-> Num(Rank(loc)),
    total_vaccinations |-> Num(Rank(loc)),
    people_vaccinated |-> Num(Rank(loc)),
    people_fully_vaccinated |-> Num(Rank(loc)),
    population |-> Num(BasePopulation) ]

\* n consecutive daily observations of loc, column c holding v[1..n].
Series(loc, n, c, v) ==
  [ d \in 1..n |-> [ BaseRow(loc, d) EXCEPT ![c] = v[d] ] ]

\* The dataset lists its rows by location and, within a location, by date,
\* one row per (location, date).  The inputs below all have that shape.

\* One key metric of Kenya takes every pattern of values and gaps; China,
\* listed before it, starts with a gap; Peru is a country outside the
\* selection and World an aggregate.
InputsSeries ==
  { Series("China", 2, m, << NaN, Num(1) >>) \o Series("Kenya", MaxDays, m, v)
      \o << BaseRow("Peru", 1), BaseRow("World", 1) >> :
    m \in Range(key_metrics), v \in [1..MaxDays -> Val] }

\* Kenya's cumulative cases and deaths: one value up to the last day,
\* another on the last day.
InputsRates ==
  { << BaseRow("China", 1) >>
      \o [ d \in 1..MaxDays |->
             [ BaseRow("Kenya", d) EXCEPT
                 !.total_cases = IF d < MaxDays THEN c0 ELSE c1,
                 !.total_deaths = IF d < MaxDays THEN d0 ELSE d1 ] ]
      \o << BaseRow("World", 1) >> :
    c0 \in { NaN, Num(1) }, c1 \in Val, d0 \in { NaN, Num(1) }, d1 \in Val }

\* Kenya's vaccinated count, and its population before and on the last day;
\* China's population known or not.
InputsVax ==
  { << [ BaseRow("China", 1) EXCEPT !.population = q ] >>
      \o [ d \in 1..MaxDays |->
             [ BaseRow("Kenya", d) EXCEPT
                 !.people_fully_vaccinated = f,
                 !.population = IF d < MaxDays THEN p0 ELSE p1 ] ] :
    q \in { NaN, Num(BasePopulation) }, f \in Val \cup { Num(Rank("Kenya")) },
    p0 \in Val, p1 \in Val }

\* Six countries of the selection, one observation each: more than the
\* rankings keep.  One ranked column varies on four of them and is fixed,
\* once missing, on the other two.
RankLocs ==
  << "Brazil", "France", "India", "Russia", "United Kingdom", "United States" >>

InputsRanking ==
  { [ k \in 1..6 |->
        [ BaseRow(RankLocs[k], 1) EXCEPT
            ![m] = IF k <= 4 THEN v[k] ELSE IF k = 5 THEN NaN ELSE Num(1) ] ] :
    m \in { "total_cases", "total_deaths", "people_fully_vaccinated" },
    v \in [1..4 -> Val] }

\* One more observation of Kenya than the rolling window holds: new_cases
\* starts with j gaps and then takes values 0 and MaxVal.
InputsWindow ==
  { << BaseRow("China", 1) >>
      \o Series("Kenya", Window + 1, "new_cases",
                [ d \in 1..(Window + 1) |-> IF d <= j THEN NaN ELSE v[d] ]) :
    j \in 0..(Window + 1),
    v \in [1..(Window + 1) -> { Num(0), Num(MaxVal) }] }

Inputs ==
  InputsSeries \cup InputsRates \cup InputsVax \cup InputsRanking
    \cup InputsWindow

InitOn(tables) ==
  /\ pc = "filter"
  /\ df \in tables
  /\ filtered_df = << >>
  /\ continent_df = << >>
  /\ country_df = << >>
  /\ latest_data = << >>
  /\ latest_vax_data = << >>
  /\ latest_global_data = << >>
  /\ top_cases = << >>
  /\ top_deaths = << >>
  /\ top_vax = << >>
  /\ output = << >>
  /\ exceptions = {}

\* The whole input space, and one specification per family of inputs.
Init == InitOn(Inputs)
InitSeries == InitOn(InputsSeries)
InitRates == InitOn(InputsRates)
InitVax == InitOn(InputsVax)
InitRanking == InitOn(InputsRanking)
InitWindow == InitOn(InputsWindow)

\* ---------------------------------------------------------------- actions

\* Section 3: filtered_df = df[df['location'].isin(countries_of_interest)]
FilterCountries ==
  /\ pc = "filter"
  /\ filtered_df' = WhereIn(df, countries_of_interest)
  /\ pc' = "split"
  /\ UNCHANGED << df, continent_df, country_df, latest_data, latest_vax_data,
                  latest_global_data, top_cases, top_deaths, top_vax,
                  output, exceptions >>

\* continent_df = df[isin(continents)]; country_df = df[~isin(continents)]
SplitAggregates ==
  /\ pc = "split"
  /\ continent_df' = WhereIn(df, continents)
  /\ country_df' = WhereNotIn(df, continents)
  /\ pc' = "ffill"
  /\ UNCHANGED << df, filtered_df, latest_data, latest_vax_data,
                  latest_global_data, top_cases, top_deaths, top_vax,
                  output, exceptions >>

\* for metric in key_metrics: forward-fill the metric per location
ForwardFill ==
  /\ pc = "ffill"
  /\ filtered_df' = FfillAll(filtered_df, key_metrics)
  /\ pc' = "plot_totals"
  /\ UNCHANGED << df, continent_df, country_df, latest_data, latest_vax_data,
                  latest_global_data, top_cases, top_deaths, top_vax,
                  output, exceptions >>

\* Sections 4.1 and 4.2: total cases (linear and log scale) and total
\* deaths over time, one line per location of filtered_df.
PlotTotals ==
  /\ pc = "plot_totals"
  /\ output' = output \o << Chart("total_cases", filtered_df),
                            Chart("total_cases_log", filtered_df),
                            Chart("total_deaths", filtered_df) >>
  /\ pc' = "smooth"
  /\ UNCHANGED << df, filtered_df, continent_df, country_df, latest_data,
                  latest_vax_data, latest_global_data, top_cases, top_deaths,
                  top_vax,
                  exceptions >>

\* Section 4.3: the 7-day rolling average of new cases, and its chart.
SmoothNewCases ==
  /\ pc = "smooth"
  /\ filtered_df' =
       SmoothColumn(filtered_df)
  /\ output' = Append(output, Chart("new_cases_smoothed", filtered_df'))
  /\ pc' = "death_rate"
  /\ UNCHANGED << df, continent_df, country_df, latest_data, latest_vax_data,
                  latest_global_data, top_cases, top_deaths, top_vax,
                  exceptions >>

\* Section 4.4: the death rate, the latest snapshot and its bar chart.
DeathRate ==
  /\ pc = "death_rate"
  /\ filtered_df' =
       RatioColumn(filtered_df, "total_deaths", "total_cases", "death_rate")
  /\ latest_data' = Latest(filtered_df')
  /\ output' = Append(output, Chart("death_rate_bars", latest_data'))
  /\ pc' = "pct_vaccinated"
  /\ UNCHANGED << df, continent_df, country_df, latest_vax_data,
                  latest_global_data, top_cases, top_deaths, top_vax,
                  exceptions >>

\* Section 5, first half: the vaccinated percentage per country and its
\* chart.  The chart pivots on pct_vaccinated: when no country was given a
\* percentage the column does not exist, the pivot raises and the run ends.
PctVaccinated ==
  /\ pc = "pct_vaccinated"
  /\ filtered_df' = PctAll(filtered_df, countries_of_interest)
  /\ IF HasColumn(filtered_df', "pct_vaccinated")
     THEN /\ output' = Append(output, Chart("pct_vaccinated", filtered_df'))
          /\ exceptions' = exceptions
          /\ pc' = "latest_vax"
     ELSE /\ output' = output
          /\ exceptions' = exceptions \cup { "pct_vaccinated" }
          /\ pc' = "raised"
  /\ UNCHANGED << df, continent_df, country_df, latest_data, latest_vax_data,
                  latest_global_data, top_cases, top_deaths, top_vax >>

\* Section 5, second half: the latest vaccination snapshot and its bars.
LatestVax ==
  /\ pc = "latest_vax"
  /\ latest_vax_data' = Latest(filtered_df)
  /\ output' = Append(output, Chart("pct_vaccinated_bars", latest_vax_data'))
  /\ pc' = "latest_global"
  /\ UNCHANGED << df, filtered_df, continent_df, country_df, latest_data,
                  latest_global_data, top_cases, top_deaths, top_vax,
                  exceptions >>

\* Section 6: latest_global_data = the latest snapshot of df.
LatestGlobal ==
  /\ pc = "latest_global"
  /\ latest_global_data' = Latest(df)
  /\ pc' = "cases_map"
  /\ UNCHANGED << df, filtered_df, continent_df, country_df, latest_data,
                  latest_vax_data, top_cases, top_deaths, top_vax,
                  output, exceptions >>

ErrCases == "Error creating cases choropleth"
ErrVax == "Error creating vaccination choropleth"
Hint == "you'll need an internet connection for Plotly maps"

\* A slip of CasesMap: the map drawn outside any try, so that its exception
\* ends the run.
CasesMapUncaught ==
  /\ pc = "cases_map"
  /\ \/ /\ output' = Append(output, Chart("cases_map", latest_global_data))
        /\ exceptions' = exceptions
        /\ pc' = "vax_map"
     \/ /\ output' = output
        /\ exceptions' = exceptions \cup { "cases_map" }
        /\ pc' = "raised"
  /\ UNCHANGED << df, filtered_df, continent_df, country_df, latest_data,
                  latest_vax_data, latest_global_data, top_cases, top_deaths,
                  top_vax >>

\* try: the cases map; except Exception: two printed lines, and the run
\* goes on.
CasesMap ==
  /\ pc = "cases_map"
  /\ \/ /\ output' = Append(output, Chart("cases_map", latest_global_data))
        /\ exceptions' = exceptions
     \/ /\ output' = output \o << Printed(ErrCases), Printed(Hint) >>
        /\ exceptions' = exceptions \cup { "cases_map" }
  /\ pc' = "vax_map"
  /\ UNCHANGED << df, filtered_df, continent_df, country_df, latest_data,
                  latest_vax_data, latest_global_data, top_cases, top_deaths,
                  top_vax >>

\* latest_global_data['vaccination_percentage'] = fully vaccinated /
\* population * 100
WithVaccinationPercentage(t) ==
  RatioColumn(t, "people_fully_vaccinated", "population",
              "vaccination_percentage")

\* try: the vaccination percentage of the snapshot, then the map; except
\* Exception: two printed lines.  The exception may come from the
\* computation (the column is then not added) or from the rendering.
VaxMap ==
  /\ pc = "vax_map"
  /\ \/ /\ latest_global_data' = WithVaccinationPercentage(latest_global_data)
        /\ output' = Append(output, Chart("vax_map", latest_global_data'))
        /\ exceptions' = exceptions
     \/ /\ latest_global_data' = latest_global_data
        /\ output' = output \o << Printed(ErrVax), Printed(Hint) >>
        /\ exceptions' = exceptions \cup { "vax_map_compute" }
     \/ /\ latest_global_data' = WithVaccinationPercentage(latest_global_data)
        /\ output' = output \o << Printed(ErrVax), Printed(Hint) >>
        /\ exceptions' = exceptions \cup { "vax_map_render" }
  /\ pc' = "cfr"
  /\ UNCHANGED << df, filtered_df, continent_df, country_df, latest_data,
                  latest_vax_data, top_cases, top_deaths, top_vax >>

\* Section 7: the case fatality rate and its chart.
Cfr ==
  /\ pc = "cfr"
  /\ filtered_df' =
       RatioColumn(filtered_df, "total_deaths", "total_cases", "cfr")
  /\ output' = Append(output, Chart("cfr", filtered_df'))
  /\ pc' = "top5"
  /\ UNCHANGED << df, continent_df, country_df, latest_data, latest_vax_data,
                  latest_global_data, top_cases, top_deaths, top_vax,
                  exceptions >>

\* Section 8: the latest snapshot again and the three rankings, displayed.
Top5 ==
  /\ pc = "top5"
  /\ latest_data' = Latest(filtered_df)
  /\ top_cases' \in Top(latest_data', "total_cases")
  /\ top_deaths' \in Top(latest_data', "total_deaths")
  /\ top_vax' \in Top(latest_data', "pct_vaccinated")
  /\ output' = output \o << Printed("Top 5 Countries by Total Cases:"),
                            Printed("Top 5 Countries by Total Deaths:"),
                            Printed("Top 5 Countries by Vaccination Rate:") >>
  /\ pc' = "done"
  /\ UNCHANGED << df, filtered_df, continent_df, country_df, latest_vax_data,
                  latest_global_data,
                  exceptions >>

Next ==
  \/ FilterCountries
  \/ SplitAggregates
  \/ ForwardFill
  \/ PlotTotals
  \/ SmoothNewCases
  \/ DeathRate
  \/ PctVaccinated
  \/ LatestVax
  \/ LatestGlobal
  \/ CasesMap
  \/ VaxMap
  \/ Cfr
  \/ Top5

Spec == Init /\ [][Next]_vars
SpecSeries == InitSeries /\ [][Next]_vars
SpecRates == InitRates /\ [][Next]_vars
SpecVax == InitVax /\ [][Next]_vars
SpecRanking == InitRanking /\ [][Next]_vars
SpecWindow == InitWindow /\ [][Next]_vars

\* ------------------------------------------------------- shared vocabulary

\* The steps in notebook order.
Steps ==
  << "filter", "split", "ffill", "plot_totals", "smooth", "death_rate",
     "pct_vaccinated", "latest_vax", "latest_global", "cases_map", "vax_map",
     "cfr", "top5", "done" >>

StepNo(p) == CHOOSE k \in DOMAIN Steps : Steps[k] = p

\* Step p has run.  A run that raised in the pct_vaccinated step has run
\* every step up to it.
Ran(p) ==
  IF pc = "raised" THEN StepNo(p) <= StepNo("pct_vaccinated")
  ELSE StepNo(p) < StepNo(pc)

Aggregates == Range(continents)
Selection == Range(countries_of_interest)

\* The rows of location loc in table t.
RowsOf(t, loc) == { i \in DOMAIN t : t[i].location = loc }

\* The chronologically last observation of loc in t.
LastObs(t, loc) ==
  t[CHOOSE i \in RowsOf(t, loc) : \A j \in RowsOf(t, loc) : t[j].date <= t[i].date]

\* The loaded observation a row of filtered_df stems from.
Loaded(r) ==
  df[CHOOSE j \in DOMAIN df :
       df[j].location = r.location /\ df[j].date = r.date]

RECURSIVE SumCells(_, _, _)
SumCells(t, S, c) ==
  IF S = {} THEN Num(0)
  ELSE LET i == CHOOSE x \in S : TRUE
       IN  Add(t[i][c], SumCells(t, S \ {i}, c))

\* ------------------------------------------------------------------ claims

\* C1. After the forward-fill step every observation of a country of
\* interest holds, for each key metric, its loaded value when that was not
\* missing, and otherwise the value of the chronologically most recent
\* earlier observation of the same location that had one; it stays missing
\* only when the location has no earlier non-missing value.
C1_ForwardFill ==
  Ran("ffill") =>
    \A i \in DOMAIN filtered_df : \A k \in DOMAIN key_metrics :
      LET m == key_metrics[k]
          r == filtered_df[i]
          earlier == { j \in RowsOf(df, r.location) :
                         df[j].date < r.date /\ ~isna(df[j][m]) }
          recent == CHOOSE j \in earlier :
                      \A x \in earlier : df[x].date <= df[j].date
      IN  r[m] = IF ~isna(Loaded(r)[m]) THEN Loaded(r)[m]
                 ELSE IF earlier = {} THEN NaN
                 ELSE df[recent][m]

\* A gap of a metric was filled from an earlier observation while another
\* observation, with nothing before it, kept its gap.
C1_Witness ==
  /\ Ran("ffill")
  /\ \E i, j \in DOMAIN filtered_df : \E k \in DOMAIN key_metrics :
       /\ isna(Loaded(filtered_df[i])[key_metrics[k]])
       /\ ~isna(filtered_df[i][key_metrics[k]])
       /\ isna(filtered_df[j][key_metrics[k]])

\* C3. The country-level subset holds no row of an aggregate location and
\* holds every loaded row of any other location.
C3_CountrySubset ==
  Ran("split") =>
    /\ \A i \in DOMAIN country_df : country_df[i].location \notin Aggregates
    /\ \A j \in DOMAIN df :
         df[j].location \notin Aggregates =>
           \E i \in DOMAIN country_df : country_df[i] = df[j]

\* The loaded table had aggregate rows and other rows, and was split.
C3_Witness ==
  /\ Ran("split")
  /\ \E j \in DOMAIN df : df[j].location \in Aggregates
  /\ country_df # << >>
  /\ continent_df # << >>

\* The observations of row i's location in the trailing window ending at
\* row i: those no later than row i that have fewer than Window
\* observations after them up to row i.
WindowOf(t, i) ==
  { j \in RowsOf(t, t[i].location) :
      /\ t[j].date <= t[i].date
      /\ Cardinality({ k \in RowsOf(t, t[i].location) :
                         t[j].date < t[k].date /\ t[k].date <= t[i].date })
           < Window }

MeanOf(t, S, c) == Div(SumCells(t, S, c), Num(Cardinality(S)))

\* C6, as stated: new_cases_smoothed is never missing and is the mean of
\* new_cases over the location's last (up to) seven observations.
C6_AsStated ==
  Ran("smooth") =>
    \A i \in DOMAIN filtered_df :
      /\ ~isna(filtered_df[i].new_cases_smoothed)
      /\ \A j \in WindowOf(filtered_df, i) : ~isna(filtered_df[j].new_cases)
      /\ filtered_df[i].new_cases_smoothed =
           MeanOf(filtered_df, WindowOf(filtered_df, i), "new_cases")

\* C6, amended: new_cases_smoothed is the mean of the non-missing
\* (forward-filled) new_cases among the location's last (up to) seven
\* observations, and is missing exactly when all of them are missing.
C6_Smoothed ==
  Ran("smooth") =>
    \A i \in DOMAIN filtered_df :
      LET known == { j \in WindowOf(filtered_df, i) :
                       ~isna(filtered_df[j].new_cases) }
      IN  filtered_df[i].new_cases_smoothed =
            IF known = {} THEN NaN
            ELSE MeanOf(filtered_df, known, "new_cases")

\* A location has more observations than the window holds, and the one
\* that left the window differs from the one that entered it.
C6_Witness ==
  /\ Ran("smooth")
  /\ \E i, j \in DOMAIN filtered_df :
       /\ filtered_df[i].location = filtered_df[j].location
       /\ filtered_df[i].date = filtered_df[j].date + Window
       /\ ~isna(filtered_df[j].new_cases)
       /\ filtered_df[j].new_cases # filtered_df[i].new_cases
       /\ ~isna(filtered_df[i].new_cases_smoothed)

\* C2, as stated: death_rate, and cfr likewise, is missing wherever
\* total_cases is missing or zero, whatever total_deaths is.
C2_RateMissingWithoutCases ==
  \A i \in DOMAIN filtered_df :
    (isna(filtered_df[i].total_cases) \/ filtered_df[i].total_cases = Num(0)) =>
      /\ Ran("death_rate") => isna(filtered_df[i].death_rate)
      /\ Ran("cfr") => isna(filtered_df[i].cfr)

\* C4, as stated: no chart of the run is drawn from a table that holds a
\* row of an aggregate location, and no ranking lists one.
C4_NoAggregateCompared ==
  /\ \A k \in DOMAIN output :
       output[k].kind = "chart" => output[k].locations \cap Aggregates = {}
  /\ \A k \in DOMAIN top_cases : top_cases[k].location \notin Aggregates
  /\ \A k \in DOMAIN top_deaths : top_deaths[k].location \notin Aggregates
  /\ \A k \in DOMAIN top_vax : top_vax[k].location \notin Aggregates

\* The three rankings once the run is over.
Rankings == { top_cases, top_deaths, top_vax }

\* What C5 states of a ranking besides its order: at most TopN rows, only
\* locations of the selection, each at most once.
RankingShape(tab) ==
  /\ Len(tab) <= TopN
  /\ \A k \in DOMAIN tab :
       tab[k].location \in Selection \cap Locations(filtered_df)
  /\ \A j, k \in DOMAIN tab : tab[j].location = tab[k].location => j = k

\* C5, as stated: each ranking is strictly descending, every row's value
\* greater than the next row's.
C5_AsStated ==
  pc = "done" =>
    \A tab \in Rankings :
      /\ RankingShape(tab)
      /\ \A k \in 1..(Len(tab) - 1) : Gt(tab[k].value, tab[k + 1].value)

\* C5, amended: each ranking has at most five rows, lists only locations of
\* the selection, each once, and is descending with ties allowed: no row's
\* value is smaller than the next row's, and rows of missing value come
\* after all others.
C5_Rankings ==
  pc = "done" =>
    \A tab \in Rankings :
      /\ RankingShape(tab)
      /\ \A k \in 1..(Len(tab) - 1) :
           /\ isna(tab[k].value) => isna(tab[k + 1].value)
           /\ ~Gt(tab[k + 1].value, tab[k].value)

\* More locations than a ranking keeps, and a ranking of five rows with a
\* tie and with a missing value.
C5_Witness ==
  /\ pc = "done"
  /\ Cardinality(Locations(filtered_df)) > TopN
  /\ \E tab \in Rankings :
       /\ Len(tab) = TopN
       /\ \E k \in 1..(Len(tab) - 1) :
            ~isna(tab[k].value) /\ tab[k].value = tab[k + 1].value
       /\ \E k \in DOMAIN tab : isna(tab[k].value)

\* The steps of the two maps in which an exception was raised.
MapRaised ==
  exceptions \cap { "cases_map", "vax_map_compute", "vax_map_render" }

\* Event e is shown, and event f after it.
ShownInOrder(e, f) ==
  \E j, k \in DOMAIN output : j < k /\ output[j] = e /\ output[k] = f

\* C7. An exception of either map, the computation of the vaccination
\* percentage included, is caught and printed, and the steps after it run
\* in order: the second map after a failure of the first, and after a
\* failure of either the case fatality rate, its chart and the rankings.
\* (At the rankings step, "can run" is spelled out: the three ranked
\* columns exist and each sort has a result.)
C7_MapFailureTolerated ==
  /\ "cases_map" \in exceptions =>
       /\ \E k \in DOMAIN output : output[k] = Printed(ErrCases)
       /\ pc \in { "vax_map", "cfr", "top5", "done" }
       /\ Ran("vax_map") =>
            \/ ShownInOrder(Printed(ErrCases), Printed(ErrVax))
            \/ ShownInOrder(Printed(ErrCases),
                            Chart("vax_map", latest_global_data))
  /\ MapRaised \ { "cases_map" } # {} =>
       /\ \E k \in DOMAIN output : output[k] = Printed(ErrVax)
       /\ pc \in { "cfr", "top5", "done" }
  /\ (MapRaised # {} /\ pc = "vax_map") => ENABLED VaxMap
  /\ (MapRaised # {} /\ pc = "cfr") => ENABLED Cfr
  /\ (MapRaised # {} /\ pc = "top5") =>
       \A c \in { "total_cases", "total_deaths", "pct_vaccinated" } :
         HasColumn(filtered_df, c) /\ Top(Latest(filtered_df), c) # {}
  /\ (MapRaised # {} /\ pc = "done") =>
       /\ HasColumn(filtered_df, "cfr")
       /\ \A e \in { Printed(ErrCases), Printed(ErrVax) } :
            (\E k \in DOMAIN output : output[k] = e) =>
              /\ ShownInOrder(e, Chart("cfr", filtered_df))
              /\ ShownInOrder(Chart("cfr", filtered_df),
                              Printed("Top 5 Countries by Total Cases:"))
       /\ \A tab \in Rankings : tab # << >>

\* Both maps failed, the second while computing the percentage, and the
\* run reached its end.
C7_Witness ==
  /\ pc = "done"
  /\ { "cases_map", "vax_map_compute" } \subseteq exceptions

\* Snapshot snap holds, for each of its locations, the cells of the
\* chronologically last observation of that location in table t.
IsLastObservation(snap, t) ==
  \A k \in DOMAIN snap :
    \A c \in (DOMAIN snap[k] \cap DOMAIN t[1]) \ { "location" } :
      snap[k][c] = LastObs(t, snap[k].location)[c]

\* C8, as stated: every cell of a location's snapshot row is the cell of
\* the location's chronologically last observation, missing when that is.
C8_SnapshotIsLastObservation ==
  /\ Ran("death_rate") => IsLastObservation(latest_data, filtered_df)
  /\ Ran("latest_vax") => IsLastObservation(latest_vax_data, filtered_df)
  /\ Ran("latest_global") => IsLastObservation(latest_global_data, df)

\* The observations of a location whose population is known.
KnownPopulation(t, loc) == { j \in RowsOf(t, loc) : ~isna(t[j].population) }

\* C9, as stated: pct_vaccinated is people_fully_vaccinated over the most
\* recent non-missing population of the location, times 100, for every
\* location that has a known population.
C9_AsStated ==
  Ran("pct_vaccinated") =>
    \A i \in DOMAIN filtered_df :
      LET r == filtered_df[i]
          known == KnownPopulation(filtered_df, r.location)
          recent == CHOOSE j \in known :
                      \A x \in known : filtered_df[x].date <= filtered_df[j].date
      IN  Cell(r, "pct_vaccinated") =
            IF known = {} \/ ~Gt(filtered_df[recent].population, Num(0))
            THEN NaN
            ELSE Scale(Div(r.people_fully_vaccinated,
                           filtered_df[recent].population), Percent)

\* C9, amended: pct_vaccinated is the (forward-filled)
\* people_fully_vaccinated over the population of the location's last
\* observation, times 100, unclamped, when that population is known and
\* positive; otherwise it is missing on every observation of the location.
\* It is missing wherever people_fully_vaccinated is.
C9_PctVaccinated ==
  Ran("pct_vaccinated") =>
    \A i \in DOMAIN filtered_df :
      LET r == filtered_df[i]
          pop == LastObs(filtered_df, r.location).population
      IN  /\ Cell(r, "pct_vaccinated") =
               IF isna(pop) \/ ~Gt(pop, Num(0)) THEN NaN
               ELSE Scale(Div(r.people_fully_vaccinated, pop), Percent)
          /\ isna(r.people_fully_vaccinated) => isna(Cell(r, "pct_vaccinated"))

\* One location is vaccinated beyond 100 percent of its last population,
\* and another, whose last population is unknown, has no percentage.
C9_Witness ==
  /\ Ran("pct_vaccinated")
  /\ \E i, j \in DOMAIN filtered_df :
       /\ Gt(Cell(filtered_df[i], "pct_vaccinated"), Num(Percent))
       /\ isna(LastObs(filtered_df, filtered_df[j].location).population)
       /\ ~isna(filtered_df[j].people_fully_vaccinated)
       /\ isna(Cell(filtered_df[j], "pct_vaccinated"))

\* The columns of filtered_df a step may write.
Written(p) ==
  CASE p = "ffill" -> Range(key_metrics)
    [] p = "smooth" -> { "new_cases_smoothed" }
    [] p = "death_rate" -> { "death_rate" }
    [] p = "pct_vaccinated" -> { "pct_vaccinated" }
    [] p = "cfr" -> { "cfr" }
    [] OTHER -> {}

\* C10. No step changes the loaded table; after the selection of the
\* countries of interest no step adds, drops, moves or duplicates a row of
\* filtered_df, and each step changes only the columns it computes; the
\* snapshot for the maps holds loaded values of its location only.
C10_Frame ==
  /\ [][ /\ df' = df
         /\ pc = "filter" =>
              \A i \in DOMAIN filtered_df' :
                \E j \in DOMAIN df : filtered_df'[i] = df[j]
         /\ pc # "filter" =>
              /\ Len(filtered_df') = Len(filtered_df)
              /\ \A i \in DOMAIN filtered_df :
                   \A c \in DOMAIN filtered_df[i] \ Written(pc) :
                     filtered_df'[i][c] = filtered_df[i][c] ]_vars
  /\ [](Ran("latest_global") =>
          \A k \in DOMAIN latest_global_data :
            \A c \in Range(key_metrics) :
              LET loc == latest_global_data[k].location
              IN  latest_global_data[k][c] \in
                    { NaN } \cup { df[j][c] : j \in RowsOf(df, loc) })

\* The fill changed a cell of filtered_df, every transform ran, and the
\* snapshot for the maps was taken.
C10_Witness ==
  /\ Ran("cfr")
  /\ \E i \in DOMAIN filtered_df : \E c \in Range(key_metrics) :
       filtered_df[i][c] # Loaded(filtered_df[i])[c]
  /\ latest_global_data # << >>

=============================================================================
